---- MODULE Spec2Model ----
(***************************************************************************)
(* Order lifecycle and order mutation of pretix' control views             *)
(* (src/src/pretix/control/views/orders.py).                               *)
(*                                                                         *)
(* One order of one sales event is modelled, together with the requests    *)
(* operators send for it (OrderTransition, OrderExtend, OrderChange) and   *)
(* the rest of the event (other orders and carts that consume quota and    *)
(* hold the event lock).  The views are translated from the source; the    *)
(* services they call (mark_order_paid, cancel_order, OrderChangeManager,  *)
(* Order._is_still_available, Event.lock) live in pretix.base and are      *)
(* modelled from the specification.                                        *)
(***************************************************************************)
EXTENDS Integers, Sequences, FiniteSets, TLC

\* ------------------------------------------------------------- bounds
MaxPositions == 2
MaxInvoices == 3
QuotaSize == 2

\* ------------------------------------------------------------ domains
Procs == {"r1", "r2"}
NOBODY == "nobody"
ELSEWHERE == "elsewhere"

\* other orders and carts of the event can exhaust one quota, not more
MaxExternal == QuotaSize

STATUS_PENDING == "n"
STATUS_PAID == "p"
STATUS_EXPIRED == "e"
STATUS_CANCELED == "c"
STATUS_REFUNDED == "r"
Statuses == {STATUS_PENDING, STATUS_PAID, STATUS_EXPIRED, STATUS_CANCELED, STATUS_REFUNDED}

\* request.POST['status'] values; "" is a missing or unknown value
Targets == {"p", "c", "n", "e", "r", ""}

None == 0
Items == {1, 2}
SubEvents == {1}
\* the 'itemvar' form value, "<item>" or "<item>-<variation>", as its parts
ItemVarChoices == {<<1>>, <<2, 1>>}
Prices == {0, 1}
\* a price as typed into a form: the DecimalField accepts negative numbers
InputPrices == Prices \cup {-1}
Expiries == {1, 2}
Keys == Items \X SubEvents

VARIABLES order, ext, lock, proc, wrote

vars == <<order, ext, lock, proc, wrote>>

\* ------------------------------------------------------------ helpers
Position(item, variation, subevent, price, addon_to) ==
    [item |-> item, variation |-> variation, subevent |-> subevent,
     price |-> price, addon_to |-> addon_to, deleted |-> FALSE]

\* a deleted position: its row is gone, its primary key is not used again
Deleted == [Position(None, None, None, 0, None) EXCEPT !.deleted = TRUE]

Live(posns) == {i \in DOMAIN posns : ~posns[i].deleted}

KeyOf(pos) == <<pos.item, pos.subevent>>

RECURSIVE SumPrices(_, _)
SumPrices(posns, i) ==
    IF i > Len(posns) THEN 0
    ELSE (IF posns[i].deleted THEN 0 ELSE posns[i].price) + SumPrices(posns, i + 1)

\* positions of the order that occupy quota k (add-ons are not quota-bound)
OwnCount(posns, k) ==
    Cardinality({i \in Live(posns) : posns[i].addon_to = None /\ KeyOf(posns[i]) = k})

\* a quota count that goes on counting the positions of canceled orders
HoldsInventory_canceled(st) == st \in {STATUS_PENDING, STATUS_PAID, STATUS_CANCELED}

\* pending and paid orders hold inventory; expired, canceled, refunded do not
HoldsInventory(st) == st \in {STATUS_PENDING, STATUS_PAID}

RECURSIVE SumOver(_, _)
SumOver(f, S) ==
    IF S = {} THEN 0
    ELSE LET k == CHOOSE x \in S : TRUE IN f[k] + SumOver(f, S \ {k})

Used(o, x, k) ==
    x[k] + (IF HoldsInventory(o.status) THEN OwnCount(o.positions, k) ELSE 0)

NoMessage == [level |-> "none", text |-> "", ref |-> <<>>]
Message(level, text) == [level |-> level, text |-> text, ref |-> <<>>]

NoFormError == [at |-> -1, kind |-> ""]
NoOcm ==
    [exists |-> FALSE, operations |-> <<>>, queued |-> 0, commits |-> 0, batch |-> <<>>]
NoLoc == [status |-> "", expires |-> 0, payment_manual |-> FALSE, total |-> 0]

IdleProc ==
    [pc |-> "idle", send_email |-> FALSE, loc |-> NoLoc, ocm |-> NoOcm, ret |-> NoMessage,
     msg |-> NoMessage, form_error |-> NoFormError, audit |-> <<>>, mails |-> 0,
     view |-> "", inv |-> None]

\* OrderView.get_object / OrderView.order: the order row as read by the request
LoadOrder ==
    [status |-> order.status, expires |-> order.expires,
     payment_manual |-> order.payment_manual, total |-> order.total]

\* Model.save() of the request's instance: every field of the instance is written
SaveOrder(loc) ==
    [order EXCEPT !.status = loc.status, !.expires = loc.expires,
                  !.payment_manual = loc.payment_manual, !.total = loc.total]

\* Order.log_action
LogAction(pr, tag) == [pr EXCEPT !.audit = Append(@, tag)]

\* whether this request changed the persisted order in some step
Track(p) ==
    wrote' = [wrote EXCEPT ![p] = (IF proc[p].pc = "idle" THEN FALSE ELSE @) \/ order' # order]

Finish(pr, m) == [pr EXCEPT !.pc = "done", !.msg = m]

\* ---------------------------------------------------------------- Init
InitPositions ==
    <<Position(1, None, 1, 1, None)>>

Init ==
    /\ order = [status |-> STATUS_PENDING, expires |-> 1, payment_manual |-> FALSE,
                payment_fee |-> 1, positions |-> InitPositions,
                total |-> SumPrices(InitPositions, 1) + 1,
                invoices |-> <<>>, cancellations |-> <<>>]
    /\ ext = [k \in Keys |-> 0]
    /\ lock = NOBODY
    /\ proc = [p \in Procs |-> IdleProc]
    /\ wrote = [p \in Procs |-> FALSE]

\* --------------------------------------------------- the rest of the event
\* another order or cart takes one unit of quota k, under the event lock
OtherBuy(k) ==
    /\ lock = NOBODY
    /\ Used(order, ext, k) < QuotaSize
    /\ SumOver(ext, Keys) < MaxExternal
    /\ ext' = [ext EXCEPT ![k] = @ + 1]
    /\ UNCHANGED <<order, lock, proc, wrote>>

OtherRelease(k) ==
    /\ ext[k] > 0
    /\ ext' = [ext EXCEPT ![k] = @ - 1]
    /\ UNCHANGED <<order, lock, proc, wrote>>

OtherLock ==
    /\ lock = NOBODY
    /\ lock' = ELSEWHERE
    /\ UNCHANGED <<order, ext, proc, wrote>>

OtherUnlock ==
    /\ lock = ELSEWHERE
    /\ lock' = NOBODY
    /\ UNCHANGED <<order, ext, proc, wrote>>

\* ------------------------------------------------------- Event.lock()
\* __enter__: the lock is taken when free
LockAcquire(p) ==
    /\ lock = NOBODY
    /\ lock' = p

\* the bounded wait ran out while somebody else held the lock
LockBusy(p) == lock \notin {NOBODY, p}

LockRelease(p) == lock' = NOBODY

\* ------------------------------------------- Inventory Quota Checker
\* CheckAvailability: capacity remains in quota k when `taken` more units are
\* counted on top of what the event already uses
CheckAvailability(o, x, k, taken) == Used(o, x, k) + taken < QuotaSize

Available == <<>>

\* Order._is_still_available: every position of the order, one after the other,
\* needs a free unit of its quota; the answer is Available or the exhausted quota
RECURSIVE StillAvailableFrom(_, _, _, _)
StillAvailableFrom(o, x, i, taken) ==
    IF i > Len(o.positions) THEN Available
    ELSE LET pos == o.positions[i]
             k == KeyOf(pos)
         IN IF pos.deleted \/ pos.addon_to # None
            THEN StillAvailableFrom(o, x, i + 1, taken)
            ELSE IF ~CheckAvailability(o, x, k, taken[k])
                 THEN k
                 ELSE StillAvailableFrom(o, x, i + 1, [taken EXCEPT ![k] = @ + 1])

IsStillAvailable(o, x) == StillAvailableFrom(o, x, 1, [k \in Keys |-> 0])

\* ------------------------------------------------------ results of calls
Returned == [level |-> "return", text |-> "", ref |-> <<>>]
Raised(exc, ref) == [level |-> "raise", text |-> exc, ref |-> ref]

\* ------------------------------------------------- OrderTransition (view)
\* a post() whose cancel branch forgot to look at the status
TransitionBranch_lax(st, to) ==
    IF st \in {STATUS_PENDING, STATUS_EXPIRED} /\ to = "p" THEN "mark_order_paid"
    ELSE IF to = "c" THEN "cancel_order"
    ELSE IF st = STATUS_PAID /\ to = "n" THEN "unpaid"
    ELSE IF st = STATUS_PENDING /\ to = "e" THEN "expired"
    ELSE IF st = STATUS_PAID /\ to = "r" THEN "refund"
    ELSE "done"

\* post(): the branch taken for the status read and the status asked for
TransitionBranch(st, to) ==
    IF st \in {STATUS_PENDING, STATUS_EXPIRED} /\ to = "p" THEN "mark_order_paid"
    ELSE IF st = STATUS_PENDING /\ to = "c" THEN "cancel_order"
    ELSE IF st = STATUS_PAID /\ to = "n" THEN "unpaid"
    ELSE IF st = STATUS_PENDING /\ to = "e" THEN "expired"
    ELSE IF st = STATUS_PAID /\ to = "r" THEN "refund"
    ELSE "done"

\* the request reads the order and picks the branch of post()
OrderTransition_post(p, to, send_email) ==
    /\ proc[p].pc = "idle"
    /\ proc' = [proc EXCEPT ![p] =
                  [IdleProc EXCEPT !.pc = TransitionBranch(order.status, to),
                                   !.loc = LoadOrder,
                                   !.send_email =
                                       send_email /\ TransitionBranch(order.status, to) = "cancel_order"]]
    /\ UNCHANGED <<order, ext, lock>>
    /\ Track(p)

\* a post() that lets the else branch run after QuotaExceededException
PaidMessage_swallow(ret) ==
    IF ret.level = "return" \/ ret.text = "QuotaExceededException"
    THEN Message("success", "The order has been marked as paid.")
    ELSE IF ret.text = "SendMailException"
    THEN Message("warning", "The order has been marked as paid, but we were unable to send a confirmation mail.")
    ELSE [level |-> "unhandled", text |-> ret.text, ref |-> ret.ref]

\* the try/except/else around mark_order_paid: what the operator is told
PaidMessage(ret) ==
    IF ret.level = "return"
    THEN Message("success", "The order has been marked as paid.")
    ELSE IF ret.text = "QuotaExceededException"
    THEN [level |-> "error", text |-> "QuotaExceededException", ref |-> ret.ref]
    ELSE IF ret.text = "SendMailException"
    THEN Message("warning", "The order has been marked as paid, but we were unable to send a confirmation mail.")
    ELSE [level |-> "unhandled", text |-> ret.text, ref |-> ret.ref]

\* a post() without the except clause for SendMailException
OrderTransition_paid_strict(pr, ret) ==
    Finish([pr EXCEPT !.ret = ret],
           IF ret.text = "SendMailException"
           THEN [level |-> "unhandled", text |-> ret.text, ref |-> ret.ref]
           ELSE PaidMessage(ret))

\* mark_order_paid has returned or raised: the request ends with the message
OrderTransition_paid(pr, ret) == Finish([pr EXCEPT !.ret = ret], PaidMessage(ret))

\* mark_order_paid, entering `with order.event.lock()`
mark_order_paid_lock(p) ==
    /\ proc[p].pc = "mark_order_paid"
    /\ \/ /\ LockAcquire(p)
          /\ proc' = [proc EXCEPT ![p].pc = "mark_order_paid_locked"]
       \/ /\ LockBusy(p)
          /\ proc' = [proc EXCEPT ![p] =
                        OrderTransition_paid(@, Raised("LockTimeoutException", <<>>))]
          /\ UNCHANGED lock
    /\ UNCHANGED <<order, ext>>
    /\ Track(p)

\* mark_order_paid inside the lock: availability is checked, then the status is saved
mark_order_paid_locked(p) ==
    /\ proc[p].pc = "mark_order_paid_locked"
    /\ lock = p
    /\ LET is_available == IsStillAvailable(order, ext)
       IN IF is_available = Available
          THEN /\ order' = [order EXCEPT !.status = STATUS_PAID, !.payment_manual = TRUE]
               /\ proc' = [proc EXCEPT ![p].pc = "mark_order_paid_notify"]
          ELSE /\ proc' = [proc EXCEPT ![p] =
                             OrderTransition_paid(@, Raised("QuotaExceededException", is_available))]
               /\ UNCHANGED order
    /\ LockRelease(p)
    /\ UNCHANGED ext
    /\ Track(p)

\* mark_order_paid after the lock: audit entry, then the confirmation mail
mark_order_paid_notify(p, delivered) ==
    /\ proc[p].pc = "mark_order_paid_notify"
    /\ proc' = [proc EXCEPT ![p] =
                  OrderTransition_paid(
                      [LogAction(@, "pretix.event.order.paid") EXCEPT !.mails = @ + 1],
                      IF delivered THEN Returned ELSE Raised("SendMailException", <<>>))]
    /\ UNCHANGED <<order, ext, lock>>
    /\ Track(p)

\* cancel_order, entering the lock
cancel_order_lock(p) ==
    /\ proc[p].pc = "cancel_order"
    /\ \/ /\ LockAcquire(p)
          /\ proc' = [proc EXCEPT ![p].pc = "cancel_order_locked"]
       \/ /\ LockBusy(p)
          /\ proc' = [proc EXCEPT ![p] =
                        Finish(@, [level |-> "unhandled", text |-> "LockTimeoutException",
                                   ref |-> <<>>])]
          /\ UNCHANGED lock
    /\ UNCHANGED <<order, ext>>
    /\ Track(p)

\* cancel_order inside the lock: the status is saved, which frees the inventory
cancel_order_locked(p) ==
    /\ proc[p].pc = "cancel_order_locked"
    /\ lock = p
    /\ order' = [order EXCEPT !.status = STATUS_CANCELED]
    /\ proc' = [proc EXCEPT ![p].pc = "cancel_order_notify"]
    /\ LockRelease(p)
    /\ UNCHANGED ext
    /\ Track(p)

\* cancel_order after the lock: audit entry, the mail if asked for; then the
\* view's success message
cancel_order_notify(p) ==
    /\ proc[p].pc = "cancel_order_notify"
    /\ proc' = [proc EXCEPT ![p] =
                  Finish([LogAction(@, "pretix.event.order.canceled") EXCEPT
                             !.mails = @ + (IF proc[p].send_email THEN 1 ELSE 0)],
                         Message("success", "The order has been canceled."))]
    /\ UNCHANGED <<order, ext, lock>>
    /\ Track(p)

\* a branch that asks for the inventory before the order goes back to pending
Transition_unpaid_checked(p) ==
    /\ proc[p].pc = "unpaid"
    /\ LET loc == [proc[p].loc EXCEPT !.status = STATUS_PENDING, !.payment_manual = TRUE]
       IN IF IsStillAvailable(order, ext) = Available
          THEN /\ order' = SaveOrder(loc)
               /\ proc' = [proc EXCEPT ![p] =
                             Finish(LogAction([@ EXCEPT !.loc = loc], "pretix.event.order.unpaid"),
                                    Message("success", "The order has been marked as not paid."))]
          ELSE /\ proc' = [proc EXCEPT ![p] =
                             Finish(@, [level |-> "error", text |-> "unavailable",
                                        ref |-> IsStillAvailable(order, ext)])]
               /\ UNCHANGED order
    /\ UNCHANGED <<ext, lock>>
    /\ Track(p)

\* a branch that saves the order and forgets the audit entry
Transition_unpaid_silent(p) ==
    /\ proc[p].pc = "unpaid"
    /\ LET loc == [proc[p].loc EXCEPT !.status = STATUS_PENDING, !.payment_manual = TRUE]
       IN /\ order' = SaveOrder(loc)
          /\ proc' = [proc EXCEPT ![p] =
                        Finish([@ EXCEPT !.loc = loc],
                               Message("success", "The order has been marked as not paid."))]
    /\ UNCHANGED <<ext, lock>>
    /\ Track(p)

\* status == PAID and to == 'n'
Transition_unpaid(p) ==
    /\ proc[p].pc = "unpaid"
    /\ LET loc == [proc[p].loc EXCEPT !.status = STATUS_PENDING, !.payment_manual = TRUE]
       IN /\ order' = SaveOrder(loc)
          /\ proc' = [proc EXCEPT ![p] =
                        Finish(LogAction([@ EXCEPT !.loc = loc], "pretix.event.order.unpaid"),
                               Message("success", "The order has been marked as not paid."))]
    /\ UNCHANGED <<ext, lock>>
    /\ Track(p)

\* status == PENDING and to == 'e'
Transition_expired(p) ==
    /\ proc[p].pc = "expired"
    /\ LET loc == [proc[p].loc EXCEPT !.status = STATUS_EXPIRED]
       IN /\ order' = SaveOrder(loc)
          /\ proc' = [proc EXCEPT ![p] =
                        Finish(LogAction([@ EXCEPT !.loc = loc], "pretix.event.order.expired"),
                               Message("success", "The order has been marked as expired."))]
    /\ UNCHANGED <<ext, lock>>
    /\ Track(p)

\* status == PAID and to == 'r': the payment provider performs the refund or
\* sends the operator elsewhere without changing the order
Transition_refund(p, performed) ==
    /\ proc[p].pc = "refund"
    /\ IF performed
       THEN /\ order' = [order EXCEPT !.status = STATUS_REFUNDED]
            /\ proc' = [proc EXCEPT ![p] =
                          Finish(LogAction(@, "pretix.event.order.refunded"), NoMessage)]
       ELSE /\ proc' = [proc EXCEPT ![p] = Finish(@, NoMessage)]
            /\ UNCHANGED order
    /\ UNCHANGED <<ext, lock>>
    /\ Track(p)

\* the response is sent; the request's objects are gone
Respond(p) ==
    /\ proc[p].pc = "done"
    /\ proc' = [proc EXCEPT ![p] = IdleProc]
    /\ UNCHANGED <<order, ext, lock, wrote>>

\* ----------------------------------------------------- OrderExtend (view)
\* a dispatch() that lets every order through to post()
OrderExtend_dispatch_allowed_lax(st) == TRUE

\* dispatch(): the statuses a deadline change is served for
OrderExtend_dispatch_allowed(st) == st \in {STATUS_PENDING, STATUS_EXPIRED}

\* dispatch() and the head of post(): the order is read, the status is checked,
\* the form is validated (a valid ModelForm carries its value to the instance)
OrderExtend_dispatch(p, valid, expires) ==
    /\ proc[p].pc = "idle"
    /\ LET loc == LoadOrder
           pr == [IdleProc EXCEPT !.loc = loc]
       IN proc' = [proc EXCEPT ![p] =
            IF ~OrderExtend_dispatch_allowed(loc.status)
            THEN Finish(pr, Message("error", "This action is only allowed for pending orders."))
            ELSE IF ~valid
            THEN Finish(pr, Message("form", "extend.html"))
            ELSE [pr EXCEPT !.loc.expires = expires,
                            !.pc = IF loc.status = STATUS_PENDING
                                   THEN "extend_pending" ELSE "extend_lock"]]
    /\ UNCHANGED <<order, ext, lock>>
    /\ Track(p)

\* a pending branch that goes through the lock as the expired branch does
OrderExtend_post_pending_locking(p) ==
    /\ proc[p].pc = "extend_pending"
    /\ IF lock = NOBODY
       THEN /\ order' = SaveOrder(proc[p].loc)
            /\ proc' = [proc EXCEPT ![p] =
                          Finish(LogAction(@, "pretix.event.order.expirychanged state_change=False"),
                                 Message("success", "The payment term has been changed."))]
       ELSE /\ proc' = [proc EXCEPT ![p] =
                          Finish([@ EXCEPT !.ret = Raised("LockTimeoutException", <<>>)],
                                 Message("error", "We were not able to process the request completely as the server was too busy."))]
            /\ UNCHANGED order
    /\ UNCHANGED <<ext, lock>>
    /\ Track(p)

\* status == PENDING: no lock, no availability check
OrderExtend_post_pending(p) ==
    /\ proc[p].pc = "extend_pending"
    /\ order' = SaveOrder(proc[p].loc)
    /\ proc' = [proc EXCEPT ![p] =
                  Finish(LogAction(@, "pretix.event.order.expirychanged state_change=False"),
                         Message("success", "The payment term has been changed."))]
    /\ UNCHANGED <<ext, lock>>
    /\ Track(p)

\* status == EXPIRED: entering `with self.order.event.lock()`
OrderExtend_post_lock(p) ==
    /\ proc[p].pc = "extend_lock"
    /\ \/ /\ LockAcquire(p)
          /\ proc' = [proc EXCEPT ![p].pc = "extend_locked"]
       \/ /\ LockBusy(p)
          /\ proc' = [proc EXCEPT ![p] =
                        Finish([@ EXCEPT !.ret = Raised("LockTimeoutException", <<>>)],
                               Message("error", "We were not able to process the request completely as the server was too busy."))]
          /\ UNCHANGED lock
    /\ UNCHANGED <<order, ext>>
    /\ Track(p)

\* the body of the with block, given the answer of _is_still_available
ExtendLocked(p, is_available) ==
    /\ proc[p].pc = "extend_locked"
    /\ lock = p
    /\ IF is_available = Available
       THEN LET loc == [proc[p].loc EXCEPT !.status = STATUS_PENDING]
            IN /\ order' = SaveOrder(loc)
               /\ proc' = [proc EXCEPT ![p] =
                             Finish(LogAction([@ EXCEPT !.loc = loc],
                                              "pretix.event.order.expirychanged state_change=True"),
                                    Message("success", "The payment term has been changed."))]
       ELSE /\ proc' = [proc EXCEPT ![p] =
                          Finish(@, [level |-> "error", text |-> "unavailable",
                                     ref |-> is_available])]
            /\ UNCHANGED order
    /\ LockRelease(p)
    /\ UNCHANGED ext
    /\ Track(p)

\* a with block that saves without asking _is_still_available
OrderExtend_post_unchecked(p) == ExtendLocked(p, Available)

\* a with block that also sends the customer a mail before it is left
OrderExtend_post_mailing(p) ==
    /\ proc[p].pc = "extend_locked"
    /\ lock = p
    /\ LET loc == [proc[p].loc EXCEPT !.status = STATUS_PENDING]
       IN /\ order' = SaveOrder(loc)
          /\ proc' = [proc EXCEPT ![p] =
                        Finish([@ EXCEPT !.loc = loc, !.mails = @ + 1],
                               Message("success", "The payment term has been changed."))]
    /\ LockRelease(p)
    /\ UNCHANGED ext
    /\ Track(p)

\* a with block whose lock stays taken when the revival is refused
OrderExtend_post_leaky(p) ==
    /\ proc[p].pc = "extend_locked"
    /\ lock = p
    /\ IF IsStillAvailable(order, ext) = Available
       THEN ExtendLocked(p, Available)
       ELSE /\ proc' = [proc EXCEPT ![p] =
                          Finish(@, [level |-> "error", text |-> "unavailable",
                                     ref |-> IsStillAvailable(order, ext)])]
            /\ UNCHANGED <<order, ext, lock>>
            /\ Track(p)

\* the with block of post(): _is_still_available is asked inside the lock
OrderExtend_post_locked(p) == ExtendLocked(p, IsStillAvailable(order, ext))

\* ------------------------------------------------ Order Change Manager
\* a PendingOperation
Operation(op, position, item, variation, subevent, price, addon_to) ==
    [op |-> op, position |-> position, item |-> item, variation |-> variation,
     subevent |-> subevent, price |-> price, addon_to |-> addon_to]

\* early validation of add_position / change_price: the price is not negative
EarlyInvalid(o) == o.op \in {"add", "price"} /\ o.price < 0

\* OrderChangeManager(order, user)
NewOcm == [NoOcm EXCEPT !.exists = TRUE]

Queue(ocm, o) == [ocm EXCEPT !.operations = Append(@, o)]

\* re-validation and application of operation o on the positions as changed so
\* far by the batch: [ok, positions, reason]
PerformOperation(st, posns, x, o) ==
    LET here == [status |-> st, positions |-> posns]
        fail(reason, ref) == [ok |-> FALSE, positions |-> posns, reason |-> reason, ref |-> ref]
        done(ps) == [ok |-> TRUE, positions |-> ps, reason |-> "", ref |-> <<>>]
        gone == o.position \notin Live(posns)
    IN CASE o.op = "add" ->
              IF o.addon_to # None
              THEN IF o.addon_to \in Live(posns)
                   THEN done(Append(posns, Position(o.item, o.variation, o.subevent,
                                                    o.price, o.addon_to)))
                   ELSE fail("InvalidOperation", <<>>)
              ELSE IF CheckAvailability(here, x, <<o.item, o.subevent>>, 0)
                   THEN done(Append(posns, Position(o.item, o.variation, o.subevent,
                                                    o.price, None)))
                   ELSE fail("QuotaExceeded", <<o.item, o.subevent>>)
         [] o.op = "item" ->
              IF gone THEN fail("InvalidOperation", <<>>)
              ELSE IF posns[o.position].addon_to = None
                      /\ ~CheckAvailability(here, x, <<o.item, posns[o.position].subevent>>, 0)
              THEN fail("QuotaExceeded", <<o.item, posns[o.position].subevent>>)
              ELSE done([posns EXCEPT ![o.position].item = o.item,
                                      ![o.position].variation = o.variation])
         [] o.op = "subevent" ->
              IF gone THEN fail("InvalidOperation", <<>>)
              ELSE IF posns[o.position].addon_to = None
                      /\ ~CheckAvailability(here, x, <<posns[o.position].item, o.subevent>>, 0)
              THEN fail("QuotaExceeded", <<posns[o.position].item, o.subevent>>)
              ELSE done([posns EXCEPT ![o.position].subevent = o.subevent])
         [] o.op = "price" ->
              IF gone THEN fail("InvalidOperation", <<>>)
              ELSE done([posns EXCEPT ![o.position].price = o.price])
         [] o.op = "cancel" ->
              IF gone THEN fail("InvalidOperation", <<>>)
              ELSE done([posns EXCEPT ![o.position] = Deleted])

\* where the position added by operation j of the queue is, when the order
\* had n positions before the batch
AddedAt(ops, j, n) == n + Cardinality({k \in 1 .. j : ops[k].op = "add"})

\* a manager that looks for parents among the persisted positions only
ResolveParent_persisted(ops, i, posns) ==
    LET a == ops[i].addon_to
    IN IF a >= 0 THEN a ELSE Len(posns) + 1

\* the parent an add-on is queued with: a position of the order, or, written
\* -j, the position that operation j of the same queue adds; that one has no
\* identifier yet and is found among the positions the batch has collected
ResolveParent(ops, i, posns) ==
    LET a == ops[i].addon_to
        n == Len(posns) - Cardinality({k \in 1 .. i - 1 : ops[k].op = "add"})
    IN IF a >= 0 THEN a
       ELSE IF -a < i /\ ops[-a].op = "add" THEN AddedAt(ops, -a, n)
       ELSE Len(posns) + 1

\* the operations in queue order, each seeing what the earlier ones did; the
\* first one that fails ends the run: [ok, positions, failed, reason, ref]
RECURSIVE PerformOperations(_, _, _, _, _)
PerformOperations(st, posns, x, ops, i) ==
    IF i > Len(ops)
    THEN [ok |-> TRUE, positions |-> posns, failed |-> 0, reason |-> "", ref |-> <<>>]
    ELSE LET r == PerformOperation(st, posns, x,
                                   [ops[i] EXCEPT !.addon_to = ResolveParent(ops, i, posns)])
         IN IF r.ok
            THEN PerformOperations(st, r.positions, x, ops, i + 1)
            ELSE [ok |-> FALSE, positions |-> posns, failed |-> i,
                  reason |-> r.reason, ref |-> r.ref]

\* a commit that logs the aggregate entry only
ChangeEntries_aggregate(ops, i) == <<"pretix.event.order.changed">>

\* one audit entry per operation, then the aggregate entry
RECURSIVE ChangeEntries(_, _)
ChangeEntries(ops, i) ==
    IF i > Len(ops) THEN <<"pretix.event.order.changed">>
    ELSE <<ops[i].op>> \o ChangeEntries(ops, i + 1)

\* OrderError as raised by the manager, by kind
OrderErrors == {"LockTimeout", "QuotaExceeded", "InvalidOperation"}

\* add_position, change_item, change_price, change_subevent, cancel: the
\* operation is queued, or OrderError is raised by the early validation
Attempt(ocm, o) ==
    IF EarlyInvalid(o) THEN [raised |-> TRUE, ocm |-> ocm]
    ELSE [raised |-> FALSE, ocm |-> Queue(ocm, o)]

\* the operations are consumed by commit and discarded with the request; what
\* the batch was stays known to the request that sent it
Consumed(ocm) ==
    [ocm EXCEPT !.operations = <<>>, !.queued = Len(ocm.operations),
                !.batch = IF ocm.commits = 0 THEN ocm.operations ELSE @]

\* a commit that keeps what it had applied when an operation failed
Commit_partial(o, x, lk, pr) ==
    LET called == [pr EXCEPT !.ocm = [Consumed(@) EXCEPT !.commits = @ + 1]]
        r == PerformOperations(o.status, o.positions, x, pr.ocm.operations, 1)
    IN IF lk # NOBODY
       THEN [order |-> o,
             pr |-> [called EXCEPT !.pc = "commit_raised",
                                   !.ret = Raised("LockTimeout", <<>>)]]
       ELSE IF ~r.ok
       THEN [order |-> [o EXCEPT !.positions = r.positions],
             pr |-> [called EXCEPT !.pc = "commit_raised",
                                   !.ret = Raised(r.reason, <<r.failed>>)]]
       ELSE [order |-> [o EXCEPT !.positions = r.positions,
                                 !.total = SumPrices(r.positions, 1) + o.payment_fee],
             pr |-> [called EXCEPT !.pc = "commit_notify",
                                   !.audit = @ \o ChangeEntries(pr.ocm.operations, 1)]]

\* a commit that persists the positions and leaves the total as it was
Commit_stale_total(o, x, lk, pr) ==
    LET called == [pr EXCEPT !.ocm = [Consumed(@) EXCEPT !.commits = @ + 1]]
        r == PerformOperations(o.status, o.positions, x, pr.ocm.operations, 1)
    IN IF lk # NOBODY
       THEN [order |-> o,
             pr |-> [called EXCEPT !.pc = "commit_raised",
                                   !.ret = Raised("LockTimeout", <<>>)]]
       ELSE IF ~r.ok
       THEN [order |-> o,
             pr |-> [called EXCEPT !.pc = "commit_raised",
                                   !.ret = Raised(r.reason, <<r.failed>>)]]
       ELSE [order |-> [o EXCEPT !.positions = r.positions],
             pr |-> [called EXCEPT !.pc = "commit_notify",
                                   !.audit = @ \o ChangeEntries(pr.ocm.operations, 1)]]

\* a commit that re-validates every operation against the order as it was
\* before the batch
Commit_snapshot(o, x, lk, pr) ==
    LET called == [pr EXCEPT !.ocm = [Consumed(@) EXCEPT !.commits = @ + 1]]
        ops == pr.ocm.operations
        bad == {i \in DOMAIN ops : ~PerformOperation(o.status, o.positions, x, ops[i]).ok}
        f == CHOOSE i \in bad : \A j \in bad : i <= j
        r == PerformOperations(o.status, o.positions, x, ops, 1)
    IN IF lk # NOBODY
       THEN [order |-> o,
             pr |-> [called EXCEPT !.pc = "commit_raised",
                                   !.ret = Raised("LockTimeout", <<>>)]]
       ELSE IF bad # {}
       THEN [order |-> o,
             pr |-> [called EXCEPT !.pc = "commit_raised",
                                   !.ret = Raised(PerformOperation(o.status, o.positions, x,
                                                                   ops[f]).reason, <<f>>)]]
       ELSE [order |-> [o EXCEPT !.positions = r.positions,
                                 !.total = SumPrices(r.positions, 1) + o.payment_fee],
             pr |-> [called EXCEPT !.pc = "commit_notify",
                                   !.audit = @ \o ChangeEntries(ops, 1)]]

\* OrderChangeManager.commit up to the end of the locked section: the lock is
\* taken, every operation is re-validated and applied, the total is recomputed
\* and all of it is persisted, or nothing is.  [order, pr] after the call;
\* the lock is free again.
Commit(o, x, lk, pr) ==
    LET called == [pr EXCEPT !.ocm = [Consumed(@) EXCEPT !.commits = @ + 1]]
        r == PerformOperations(o.status, o.positions, x, pr.ocm.operations, 1)
    IN IF lk # NOBODY
       THEN [order |-> o,
             pr |-> [called EXCEPT !.pc = "commit_raised",
                                   !.ret = Raised("LockTimeout", <<>>)]]
       ELSE IF ~r.ok
       THEN [order |-> o,
             pr |-> [called EXCEPT !.pc = "commit_raised",
                                   !.ret = Raised(r.reason, <<r.failed>>)]]
       ELSE [order |-> [o EXCEPT !.positions = r.positions,
                                 !.total = SumPrices(r.positions, 1) + o.payment_fee],
             pr |-> [called EXCEPT !.pc = "commit_notify",
                                   !.audit = @ \o ChangeEntries(pr.ocm.operations, 1)]]

\* ----------------------------------------------------- OrderChange (view)
NoAdd ==
    [valid |-> TRUE, do |-> FALSE, itemvar |-> <<1>>, price |-> 0, addon_to |-> None,
     subevent |-> 1]

NoopForm ==
    [valid |-> TRUE, operation |-> "", itemvar |-> <<1>>, price |-> 0, subevent |-> 1]

\* itemvar.split('-')
SplitItemVar(itemvar) ==
    IF Len(itemvar) = 2 THEN <<itemvar[1], itemvar[2]>> ELSE <<itemvar[1], None>>

FormError(at, kind) == [at |-> at, kind |-> kind]

\* _process_add: [ok, ocm, error]
OrderChange_process_add(ocm, f) ==
    IF ~f.valid
    THEN [ok |-> FALSE, ocm |-> ocm, error |-> FormError(0, "invalid")]
    ELSE IF f.do
    THEN LET iv == SplitItemVar(f.itemvar)
             a == Attempt(ocm, Operation("add", None, iv[1], iv[2], f.subevent,
                                         f.price, f.addon_to))
         IN IF a.raised
            THEN [ok |-> FALSE, ocm |-> ocm, error |-> FormError(0, "OrderError")]
            ELSE [ok |-> TRUE, ocm |-> a.ocm, error |-> NoFormError]
    ELSE [ok |-> TRUE, ocm |-> ocm, error |-> NoFormError]

\* the operation a position's form asks for
FormOperation(i, f) ==
    LET iv == SplitItemVar(f.itemvar)
    IN CASE f.operation = "product" -> Operation("item", i, iv[1], iv[2], None, 0, None)
         [] f.operation = "price" -> Operation("price", i, None, None, None, f.price, None)
         [] f.operation = "subevent" -> Operation("subevent", i, None, None, f.subevent, 0, None)
         [] f.operation = "cancel" -> Operation("cancel", i, None, None, None, 0, None)

\* _process_change: the positions of the order in their order, up to the first
\* invalid form or OrderError: [ok, ocm, error]
RECURSIVE OrderChange_process_change(_, _, _, _)
OrderChange_process_change(ocm, posns, forms, i) ==
    IF i > Len(posns) THEN [ok |-> TRUE, ocm |-> ocm, error |-> NoFormError]
    ELSE IF posns[i].deleted THEN OrderChange_process_change(ocm, posns, forms, i + 1)
    ELSE IF ~forms[i].valid
    THEN [ok |-> FALSE, ocm |-> ocm, error |-> FormError(i, "invalid")]
    ELSE IF forms[i].operation = ""
    THEN OrderChange_process_change(ocm, posns, forms, i + 1)
    ELSE LET a == Attempt(ocm, FormOperation(i, forms[i]))
         IN IF a.raised
            THEN [ok |-> FALSE, ocm |-> ocm, error |-> FormError(i, "OrderError")]
            ELSE OrderChange_process_change(a.ocm, posns, forms, i + 1)

\* a post() that processes the positions' forms before the add form
OrderChange_form_valid_changes_first(ocm, posns, add_form, forms) ==
    LET c == OrderChange_process_change(ocm, posns, forms, 1)
    IN IF c.ok THEN OrderChange_process_add(c.ocm, add_form) ELSE c

\* form_valid = self._process_add(ocm) and self._process_change(ocm)
OrderChange_form_valid(ocm, posns, add_form, forms) ==
    LET a == OrderChange_process_add(ocm, add_form)
    IN IF a.ok THEN OrderChange_process_change(a.ocm, posns, forms, 1) ELSE a

\* a post() that tells the operator only that something went wrong
ChangeMessage_generic(ret) ==
    IF ret.level = "raise" /\ ret.text \in OrderErrors
    THEN Message("error", "An error occured. Please see the details below.")
    ELSE IF ret.level = "raise"
    THEN [level |-> "unhandled", text |-> ret.text, ref |-> ret.ref]
    ELSE Message("success", "The order has been changed and the user has been notified.")

\* the try/except/else around ocm.commit(): what the operator is told
ChangeMessage(ret) ==
    IF ret.level = "raise" /\ ret.text \in OrderErrors
    THEN [level |-> "error", text |-> ret.text, ref |-> ret.ref]
    ELSE IF ret.level = "raise"
    THEN [level |-> "unhandled", text |-> ret.text, ref |-> ret.ref]
    ELSE Message("success", "The order has been changed and the user has been notified.")

\* a post() that commits what was queued before the form that failed
OrderChange_commit_anyway(o, x, lk, pr, v) ==
    LET c == Commit(o, x, lk, [pr EXCEPT !.ocm = v.ocm, !.form_error = v.error])
    IN IF c.pr.pc = "commit_raised"
       THEN [order |-> c.order, pr |-> Finish(c.pr, ChangeMessage(c.pr.ret))]
       ELSE c

\* a post() that calls commit again when the first call raised OrderError
OrderChange_commit_retry(o, x, lk, pr, v) ==
    IF ~v.ok
    THEN [order |-> o,
          pr |-> Finish([pr EXCEPT !.ocm = Consumed(v.ocm), !.form_error = v.error],
                        Message("error", "An error occured. Please see the details below."))]
    ELSE LET c == Commit(o, x, lk, [pr EXCEPT !.ocm = v.ocm])
             d == IF c.pr.pc = "commit_raised" THEN Commit(c.order, x, lk, c.pr) ELSE c
         IN IF d.pr.pc = "commit_raised"
            THEN [order |-> d.order, pr |-> Finish(d.pr, ChangeMessage(d.pr.ret))]
            ELSE d

\* post() after the forms are processed: the error message, or the one call of
\* commit with its except branch; a commit that got through the locked section
\* goes on to notify
OrderChange_commit(o, x, lk, pr, v) ==
    IF ~v.ok
    THEN [order |-> o,
          pr |-> Finish([pr EXCEPT !.ocm = Consumed(v.ocm), !.form_error = v.error],
                        Message("error", "An error occured. Please see the details below."))]
    ELSE LET c == Commit(o, x, lk, [pr EXCEPT !.ocm = v.ocm])
         IN IF c.pr.pc = "commit_raised"
            THEN [order |-> c.order, pr |-> Finish(c.pr, ChangeMessage(c.pr.ret))]
            ELSE c

\* a dispatch() that turns away expired and refunded orders only
OrderChange_dispatch_lax(st) == st \in {STATUS_PENDING, STATUS_PAID, STATUS_CANCELED}

\* dispatch(): the statuses a change request is served for
OrderChange_dispatch(st) == st \in {STATUS_PENDING, STATUS_PAID}

\* dispatch() and post(): the order and its positions are read, the status is
\* checked, a manager is built, the forms are processed and commit is called
OrderChange_post(p, add_form, forms) ==
    /\ proc[p].pc = "idle"
    /\ LET pr == [IdleProc EXCEPT !.loc = LoadOrder]
       IN IF ~OrderChange_dispatch(order.status)
          THEN /\ proc' = [proc EXCEPT ![p] =
                            Finish(pr, Message("error", "This action is only allowed for pending or paid orders."))]
               /\ UNCHANGED order
          ELSE LET r == OrderChange_commit(order, ext, lock, [pr EXCEPT !.ocm = NewOcm],
                           OrderChange_form_valid(NewOcm, order.positions, add_form, forms))
               IN /\ order' = r.order
                  /\ proc' = [proc EXCEPT ![p] = r.pr]
    /\ UNCHANGED <<ext, lock>>
    /\ Track(p)

\* post() up to the call of commit, for requests served side by side: the
\* status is checked and the forms are processed into the manager's queue
OrderChange_post_queue(p, add_form, forms) ==
    /\ proc[p].pc = "idle"
    /\ LET pr == [IdleProc EXCEPT !.loc = LoadOrder]
           v == OrderChange_form_valid(NewOcm, order.positions, add_form, forms)
       IN proc' = [proc EXCEPT ![p] =
            IF ~OrderChange_dispatch(order.status)
            THEN Finish(pr, Message("error", "This action is only allowed for pending or paid orders."))
            ELSE IF ~v.ok
            THEN OrderChange_commit(order, ext, lock, [pr EXCEPT !.ocm = NewOcm], v).pr
            ELSE [pr EXCEPT !.ocm = v.ocm, !.pc = "ocm_commit"]]
    /\ UNCHANGED <<order, ext, lock>>
    /\ Track(p)

\* the call of commit, on the order and the inventory as they are by then
OrderChange_post_commit(p) ==
    /\ proc[p].pc = "ocm_commit"
    /\ LET r == OrderChange_commit(order, ext, lock, proc[p],
                                   [ok |-> TRUE, ocm |-> proc[p].ocm, error |-> NoFormError])
       IN /\ order' = r.order
          /\ proc' = [proc EXCEPT ![p] = r.pr]
    /\ UNCHANGED <<ext, lock>>
    /\ Track(p)

\* commit after the lock: the one notification of the batch; a delivery failure
\* is logged and commit still returns normally, to the else branch of post()
OrderChange_post_notify(p, delivered) ==
    /\ proc[p].pc = "commit_notify"
    /\ proc' = [proc EXCEPT ![p] =
                  Finish([@ EXCEPT !.mails = @ + 1, !.ret = Returned], ChangeMessage(Returned))]
    /\ UNCHANGED <<order, ext, lock>>
    /\ Track(p)

\* ------------------------------------------------------ invoices (views)
\* an invoice as issued; `via` is the audit action it was issued under
Invoice(via) == [canceled |-> FALSE, via |-> via]

\* a post() that does not look at inv.canceled
InvoiceLookup_lax(invs, id) ==
    IF id \notin DOMAIN invs THEN "Unknown invoice." ELSE "ok"

\* self.order.invoices.get(pk=id), then inv.canceled: the error, or "ok"
InvoiceLookup(invs, id) ==
    IF id \notin DOMAIN invs THEN "Unknown invoice."
    ELSE IF invs[id].canceled THEN "The invoice has already been canceled."
    ELSE "ok"

\* generate_cancellation(inv): the cancellation record, and inv is canceled
generate_cancellation(o, id) ==
    [o EXCEPT !.invoices[id].canceled = TRUE, !.cancellations = Append(@, id)]

\* generate_invoice(order)
generate_invoice(o, via) == [o EXCEPT !.invoices = Append(@, Invoice(via))]

\* OrderInvoiceCreate.post; `allowed` is the event's invoice setting together
\* with invoice_qualified(order)
OrderInvoiceCreate_post(p, allowed) ==
    /\ proc[p].pc = "idle"
    /\ LET pr == [IdleProc EXCEPT !.loc = LoadOrder, !.view = "create"]
       IN IF ~allowed
          THEN /\ proc' = [proc EXCEPT ![p] =
                            Finish(pr, Message("error", "You cannot generate an invoice for this order."))]
               /\ UNCHANGED order
          ELSE IF order.invoices # <<>>
          THEN /\ proc' = [proc EXCEPT ![p] =
                            Finish(pr, Message("error", "An invoice for this order already exists."))]
               /\ UNCHANGED order
          ELSE /\ order' = generate_invoice(order, "generated")
               /\ proc' = [proc EXCEPT ![p] =
                            Finish(LogAction(pr, "pretix.event.order.invoice.generated"),
                                   Message("success", "The invoice has been generated."))]
    /\ UNCHANGED <<ext, lock>>
    /\ Track(p)

\* OrderInvoiceCreate.post as two workers can run it side by side: first the
\* setting and self.order.invoices.exists() are looked at
OrderInvoiceCreate_check(p, allowed) ==
    /\ proc[p].pc = "idle"
    /\ LET pr == [IdleProc EXCEPT !.loc = LoadOrder, !.view = "create"]
       IN proc' = [proc EXCEPT ![p] =
                     IF ~allowed
                     THEN Finish(pr, Message("error", "You cannot generate an invoice for this order."))
                     ELSE IF order.invoices # <<>>
                     THEN Finish(pr, Message("error", "An invoice for this order already exists."))
                     ELSE [pr EXCEPT !.pc = "create"]]
    /\ UNCHANGED <<order, ext, lock>>
    /\ Track(p)

\* then generate_invoice(self.order), the audit entry and the message
OrderInvoiceCreate_generate(p) ==
    /\ proc[p].pc = "create"
    /\ order' = generate_invoice(order, "generated")
    /\ proc' = [proc EXCEPT ![p] =
                  Finish(LogAction(@, "pretix.event.order.invoice.generated"),
                         Message("success", "The invoice has been generated."))]
    /\ UNCHANGED <<ext, lock>>
    /\ Track(p)

\* the head of OrderInvoiceRegenerate.post and OrderInvoiceReissue.post: the
\* invoice is looked up among the order's and must not be canceled
OrderInvoice_lookup(p, view, id) ==
    /\ proc[p].pc = "idle"
    /\ LET pr == [IdleProc EXCEPT !.loc = LoadOrder, !.view = view, !.inv = id]
           found == InvoiceLookup(order.invoices, id)
       IN proc' = [proc EXCEPT ![p] =
                     IF found # "ok" THEN Finish(pr, Message("error", found))
                     ELSE [pr EXCEPT !.pc = view]]
    /\ UNCHANGED <<order, ext, lock>>
    /\ Track(p)

OrderInvoiceRegenerate_post(p, id) == OrderInvoice_lookup(p, "regenerate", id)

OrderInvoiceReissue_post(p, id) == OrderInvoice_lookup(p, "reissue", id)

\* regenerate_invoice(inv): the old invoice gets its cancellation record
regenerate_invoice_cancel(p) ==
    /\ proc[p].pc = "regenerate"
    /\ order' = generate_cancellation(order, proc[p].inv)
    /\ proc' = [proc EXCEPT ![p].pc = "regenerate_issue"]
    /\ UNCHANGED <<ext, lock>>
    /\ Track(p)

\* regenerate_invoice(inv): the new invoice is issued; then the view's audit
\* entry and message
regenerate_invoice_issue(p) ==
    /\ proc[p].pc = "regenerate_issue"
    /\ order' = generate_invoice(order, "regenerated")
    /\ proc' = [proc EXCEPT ![p] =
                  Finish(LogAction(@, "pretix.event.order.invoice.regenerated"),
                         Message("success", "The invoice has been regenerated."))]
    /\ UNCHANGED <<ext, lock>>
    /\ Track(p)

\* a post() that issues the new invoice without generate_cancellation(inv)
OrderInvoiceReissue_nocancel(p) ==
    /\ proc[p].pc = "reissue"
    /\ proc' = [proc EXCEPT ![p].pc = "reissue_issue"]
    /\ UNCHANGED <<order, ext, lock>>
    /\ Track(p)

\* OrderInvoiceReissue.post: generate_cancellation(inv)
OrderInvoiceReissue_cancel(p) ==
    /\ proc[p].pc = "reissue"
    /\ order' = generate_cancellation(order, proc[p].inv)
    /\ proc' = [proc EXCEPT ![p].pc = "reissue_issue"]
    /\ UNCHANGED <<ext, lock>>
    /\ Track(p)

\* OrderInvoiceReissue.post: generate_invoice(self.order), audit entry, message
OrderInvoiceReissue_issue(p) ==
    /\ proc[p].pc = "reissue_issue"
    /\ order' = generate_invoice(order, "reissued")
    /\ proc' = [proc EXCEPT ![p] =
                  Finish(LogAction(@, "pretix.event.order.invoice.reissued"),
                         Message("success", "The invoice has been reissued."))]
    /\ UNCHANGED <<ext, lock>>
    /\ Track(p)

\* --------------------------------------------------- what operators type
AddForms(posns) ==
    {NoAdd, [NoAdd EXCEPT !.valid = FALSE]}
    \cup (IF Len(posns) >= MaxPositions THEN {}
          ELSE [valid : {TRUE}, do : {TRUE}, itemvar : ItemVarChoices, price : InputPrices,
                addon_to : {None} \cup Live(posns), subevent : SubEvents])

PositionForms ==
    {[NoopForm EXCEPT !.valid = FALSE], [NoopForm EXCEPT !.operation = "cancel"]}
    \cup {[NoopForm EXCEPT !.operation = "product", !.itemvar = iv] : iv \in ItemVarChoices}
    \cup {[NoopForm EXCEPT !.operation = "price", !.price = pr] : pr \in InputPrices}
    \cup {[NoopForm EXCEPT !.operation = "subevent", !.subevent = se] : se \in SubEvents}

\* a change request: the add form and one form per position of the order
ChangeRequest(p) ==
    \E add_form \in AddForms(order.positions) :
       \E forms \in [1 .. Len(order.positions) -> PositionForms \cup {NoopForm}] :
          OrderChange_post(p, add_form, forms)

\* a change request that at most sets the price of one position
PriceChangeRequest(p) ==
    \E i \in 1 .. Len(order.positions), pr \in Prices :
       OrderChange_post(p, NoAdd,
                        [j \in 1 .. Len(order.positions) |->
                            IF j = i THEN [NoopForm EXCEPT !.operation = "price", !.price = pr]
                            ELSE NoopForm])

\* ------------------------------------------------------------------ Next
Environment ==
    \/ \E k \in Keys : OtherBuy(k)
    \/ \E k \in Keys : OtherRelease(k)
    \/ OtherLock
    \/ OtherUnlock

TransitionRequest(p) ==
    \E to \in Targets, send_email \in BOOLEAN : OrderTransition_post(p, to, send_email)

ExtendRequest(p) ==
    \E valid \in BOOLEAN, expires \in Expiries : OrderExtend_dispatch(p, valid, expires)

ContinueTransition(p) ==
    \/ mark_order_paid_lock(p)
    \/ mark_order_paid_locked(p)
    \/ \E delivered \in BOOLEAN : mark_order_paid_notify(p, delivered)
    \/ cancel_order_lock(p)
    \/ cancel_order_locked(p)
    \/ cancel_order_notify(p)
    \/ Transition_unpaid(p)
    \/ Transition_expired(p)
    \/ \E performed \in BOOLEAN : Transition_refund(p, performed)

ContinueExtend(p) ==
    \/ OrderExtend_post_pending(p)
    \/ OrderExtend_post_lock(p)
    \/ OrderExtend_post_locked(p)

ContinueChange(p) ==
    \E delivered \in BOOLEAN : OrderChange_post_notify(p, delivered)

AllIdle == \A q \in Procs : proc[q].pc = "idle"

\* the worker that serves the requests when they come one at a time
Serial == {"r1"}

\* change requests, one at a time, the rest of the event going on
NextChange ==
    \/ Environment
    \/ \E p \in Serial : AllIdle /\ ChangeRequest(p)
    \/ \E p \in Serial : ContinueChange(p)
    \/ \E p \in Serial : Respond(p)

SpecChange == Init /\ [][NextChange]_vars

\* a change request served in its two steps: the forms are processed into the
\* manager's queue, then commit is called
QueuedChangeRequest(p) ==
    \E add_form \in AddForms(order.positions) :
       \E forms \in [1 .. Len(order.positions) -> PositionForms \cup {NoopForm}] :
          OrderChange_post_queue(p, add_form, forms)

\* change requests, one at a time and step by step, the rest of the event
\* going on between the queueing and the commit
NextBatch ==
    \/ Environment
    \/ \E p \in Serial : AllIdle /\ QueuedChangeRequest(p)
    \/ \E p \in Serial : OrderChange_post_commit(p)
    \/ \E p \in Serial : ContinueChange(p)
    \/ \E p \in Serial : Respond(p)

SpecBatch == Init /\ [][NextBatch]_vars

\* additions as they can be queued on a manager directly: a position, or a
\* position and an add-on that names it as its parent
AdditionBatches ==
    {<<Operation("add", None, it, None, 1, 1, None)>> : it \in Items}
    \cup {<<Operation("add", None, it, None, 1, 1, None),
            Operation("add", None, ad, None, 1, 0, -1)>> : it \in Items, ad \in Items}
    \cup {<<Operation("add", None, it, None, 1, 0, 1),
            Operation("add", None, ad, None, 1, 1, None)>> : it \in Items, ad \in Items}

RECURSIVE AttemptAll(_, _, _)
AttemptAll(ocm, ops, i) ==
    IF i > Len(ops) THEN [raised |-> FALSE, ocm |-> ocm]
    ELSE LET a == Attempt(ocm, ops[i])
         IN IF a.raised THEN a ELSE AttemptAll(a.ocm, ops, i + 1)

\* the manager used without the forms: the additions are queued one by one
\* on a new manager; commit is called next
OrderChangeManager_add_positions(p, ops) ==
    /\ proc[p].pc = "idle"
    /\ OrderChange_dispatch(order.status)
    /\ Len(order.positions) < MaxPositions
    /\ LET a == AttemptAll(NewOcm, ops, 1)
       IN /\ ~a.raised
          /\ proc' = [proc EXCEPT ![p] =
                        [IdleProc EXCEPT !.loc = LoadOrder, !.ocm = a.ocm, !.pc = "ocm_commit"]]
    /\ UNCHANGED <<order, ext, lock>>
    /\ Track(p)

\* a position of the order is canceled through the form
CancelRequest(p) ==
    \E i \in 1 .. Len(order.positions) :
       OrderChange_post_queue(p, NoAdd,
           [j \in 1 .. Len(order.positions) |->
               IF j = i THEN [NoopForm EXCEPT !.operation = "cancel"] ELSE NoopForm])

\* batches of additions queued on the manager, one at a time, the rest of the
\* event going on
NextManager ==
    \/ Environment
    \/ \E p \in Serial, ops \in AdditionBatches :
          AllIdle /\ OrderChangeManager_add_positions(p, ops)
    \/ \E p \in Serial : AllIdle /\ CancelRequest(p)
    \/ \E p \in Serial : OrderChange_post_commit(p)
    \/ \E p \in Serial : ContinueChange(p)
    \/ \E p \in Serial : Respond(p)

SpecManager == Init /\ [][NextManager]_vars

\* forms that put the early validation to work: a price, allowed or
\* negative, for an addition or for a position; an invalid form; a cancel
PricedAddForms(posns) ==
    {NoAdd, [NoAdd EXCEPT !.valid = FALSE]}
    \cup (IF Len(posns) >= MaxPositions THEN {}
          ELSE {[NoAdd EXCEPT !.do = TRUE, !.price = pr] : pr \in {-1, 1}})

PricedPositionForms ==
    {NoopForm, [NoopForm EXCEPT !.valid = FALSE], [NoopForm EXCEPT !.operation = "cancel"]}
    \cup {[NoopForm EXCEPT !.operation = "price", !.price = pr] : pr \in {-1, 2}}

PricedChangeRequest(p) ==
    \E add_form \in PricedAddForms(order.positions) :
       \E forms \in [1 .. Len(order.positions) -> PricedPositionForms] :
          OrderChange_post_queue(p, add_form, forms)

\* change requests that set prices, one at a time and step by step, the rest
\* of the event going on
NextPriced ==
    \/ Environment
    \/ \E p \in Serial : AllIdle /\ PricedChangeRequest(p)
    \/ \E p \in Serial : OrderChange_post_commit(p)
    \/ \E p \in Serial : ContinueChange(p)
    \/ \E p \in Serial : Respond(p)

SpecPriced == Init /\ [][NextPriced]_vars

\* the invoice ids a request can name: the order's, and one that is not
InvoiceIds == 1 .. MaxInvoices + 1

\* invoice requests and status transitions, one at a time
NextInvoice ==
    \/ \E p \in Serial : AllIdle /\ TransitionRequest(p)
    \/ \E p \in Serial : ContinueTransition(p)
    \/ \E p \in Serial, allowed \in BOOLEAN : AllIdle /\ OrderInvoiceCreate_post(p, allowed)
    \/ \E p \in Serial, id \in InvoiceIds :
          /\ AllIdle
          /\ Len(order.invoices) < MaxInvoices \/ InvoiceLookup(order.invoices, id) # "ok"
          /\ OrderInvoiceRegenerate_post(p, id)
    \/ \E p \in Serial, id \in InvoiceIds :
          /\ AllIdle
          /\ Len(order.invoices) < MaxInvoices \/ InvoiceLookup(order.invoices, id) # "ok"
          /\ OrderInvoiceReissue_post(p, id)
    \/ \E p \in Serial : regenerate_invoice_cancel(p)
    \/ \E p \in Serial : regenerate_invoice_issue(p)
    \/ \E p \in Serial : OrderInvoiceReissue_cancel(p)
    \/ \E p \in Serial : OrderInvoiceReissue_issue(p)
    \/ \E p \in Serial : Respond(p)

SpecInvoice == Init /\ [][NextInvoice]_vars

\* invoice requests served side by side by the workers
NextInvoiceRace ==
    \/ \E p \in Procs, allowed \in BOOLEAN : OrderInvoiceCreate_check(p, allowed)
    \/ \E p \in Procs : OrderInvoiceCreate_generate(p)
    \/ \E p \in Procs, id \in InvoiceIds :
          /\ Len(order.invoices) < MaxInvoices \/ InvoiceLookup(order.invoices, id) # "ok"
          /\ OrderInvoiceRegenerate_post(p, id)
    \/ \E p \in Procs, id \in InvoiceIds :
          /\ Len(order.invoices) < MaxInvoices \/ InvoiceLookup(order.invoices, id) # "ok"
          /\ OrderInvoiceReissue_post(p, id)
    \/ \E p \in Procs : regenerate_invoice_cancel(p)
    \/ \E p \in Procs : regenerate_invoice_issue(p)
    \/ \E p \in Procs : OrderInvoiceReissue_cancel(p)
    \/ \E p \in Procs : OrderInvoiceReissue_issue(p)
    \/ \E p \in Procs : Respond(p)

SpecInvoiceRace == Init /\ [][NextInvoiceRace]_vars

\* requests of every kind, one at a time, the rest of the event going on; while
\* the order can be changed, the change requests are price changes
NextSeq ==
    \/ Environment
    \/ \E p \in Serial : AllIdle /\ TransitionRequest(p)
    \/ \E p \in Serial : AllIdle /\ ExtendRequest(p)
    \/ \E p \in Serial : AllIdle /\ HoldsInventory(order.status) /\ PriceChangeRequest(p)
    \/ \E p \in Serial : AllIdle /\ ~HoldsInventory(order.status) /\ ChangeRequest(p)
    \/ \E p \in Serial : ContinueTransition(p)
    \/ \E p \in Serial : ContinueExtend(p)
    \/ \E p \in Serial : ContinueChange(p)
    \/ \E p \in Serial : Respond(p)

SpecSeq == Init /\ [][NextSeq]_vars

\* the steps of the requests that enter a locked section: mark paid, cancel,
\* revival of the expired order
ContinueLocked(p) ==
    \/ mark_order_paid_lock(p)
    \/ mark_order_paid_locked(p)
    \/ mark_order_paid_notify(p, TRUE)
    \/ cancel_order_lock(p)
    \/ cancel_order_locked(p)
    \/ cancel_order_notify(p)
    \/ OrderExtend_post_lock(p)
    \/ OrderExtend_post_locked(p)

\* requests that take the event lock, served side by side by the workers,
\* with the expiry that lets the order be revived and the rest of the event
\* going on; a worker that has started a request goes on with it
NextFair ==
    \/ Environment
    \/ \E p \in Procs, to \in {"p", "c", "e"} : OrderTransition_post(p, to, FALSE)
    \/ \E p \in Procs : order.status = STATUS_EXPIRED /\ OrderExtend_dispatch(p, TRUE, 2)
    \/ \E p \in Procs : Transition_expired(p)
    \/ \E p \in Procs : ContinueLocked(p)
    \/ \E p \in Procs : Respond(p)

SpecFair ==
    /\ Init
    /\ [][NextFair]_vars
    /\ \A p \in Procs : WF_vars(ContinueLocked(p))

\* a change request that takes inventory: one position added, or the first
\* one moved to the other product
QuotaChangeRequest(p) ==
    \/ \E iv \in ItemVarChoices :
          /\ Len(order.positions) < MaxPositions
          /\ OrderChange_post_queue(p, [NoAdd EXCEPT !.do = TRUE, !.itemvar = iv, !.price = 1],
                                    [j \in 1 .. Len(order.positions) |-> NoopForm])
    \/ /\ order.positions[1].item = 1
       /\ OrderChange_post_queue(p, NoAdd,
                 [j \in 1 .. Len(order.positions) |->
                     IF j = 1 THEN [NoopForm EXCEPT !.operation = "product", !.itemvar = <<2, 1>>]
                     ELSE NoopForm])

\* concurrent requests on the order that take inventory under the event lock
\* (mark paid, revival of the expired order, change), with the expiry that
\* gives the inventory back, and other orders of the event bought and released
NextLocked ==
    \/ \E k \in Keys : OtherBuy(k)
    \/ \E k \in Keys : OtherRelease(k)
    \/ \E p \in Procs : OrderTransition_post(p, "p", FALSE)
    \/ \E p \in Procs : OrderTransition_post(p, "e", FALSE)
    \/ \E p \in Procs : order.status = STATUS_EXPIRED /\ OrderExtend_dispatch(p, TRUE, 2)
    \/ \E p \in Procs : QuotaChangeRequest(p)
    \/ \E p \in Procs : mark_order_paid_lock(p)
    \/ \E p \in Procs : mark_order_paid_locked(p)
    \/ \E p \in Procs : mark_order_paid_notify(p, TRUE)
    \/ \E p \in Procs : Transition_expired(p)
    \/ \E p \in Procs : OrderExtend_post_lock(p)
    \/ \E p \in Procs : OrderExtend_post_locked(p)
    \/ \E p \in Procs : OrderChange_post_commit(p)
    \/ \E p \in Procs : OrderChange_post_notify(p, TRUE)
    \/ \E p \in Procs : Respond(p)

SpecLocked == Init /\ [][NextLocked]_vars


\* =================================================================== claims
\* the request p has ended and its call of commit raised for a failed
\* re-validation of a queued operation
CommitAborted(p) ==
    /\ proc[p].pc = "done"
    /\ proc[p].ret.level = "raise"
    /\ proc[p].ret.text \in {"QuotaExceeded", "InvalidOperation"}

\* C1: when a queued operation fails re-validation during commit, the whole
\* commit is aborted and nothing of it is persisted: the request has not changed
\* the order (positions, total), has written no audit entry and sent no mail.
C1_AbortedCommitPersistsNothing ==
    \A p \in Procs :
        CommitAborted(p) => /\ ~wrote[p]
                            /\ proc[p].audit = <<>>
                            /\ proc[p].mails = 0

\* a batch of two operations whose second one failed after the first was applied
C1_SecondOperationFailed ==
    \E p \in Procs : /\ CommitAborted(p)
                     /\ proc[p].ocm.queued = 2
                     /\ proc[p].ret.ref = <<2>>

\* C2: after every successful commit, and so along any sequence of committed
\* batches, the persisted total is the sum of the prices of the order's
\* positions plus the payment fee.
C2_TotalIsSumOfPrices ==
    order.total = SumPrices(order.positions, 1) + order.payment_fee

\* a batch of two operations has been committed and the total is a new one
C2_BatchCommitted ==
    \E p \in Procs : /\ proc[p].pc = "commit_notify"
                     /\ proc[p].ocm.queued = 2
                     /\ wrote[p]
                     /\ order.total # SumPrices(InitPositions, 1) + order.payment_fee

\* C3: under every interleaving of commit, mark-paid and revival of an expired
\* order within the event, no quota ever has more units taken than it holds.
C3_NeverOversold ==
    \A k \in Keys : Used(order, ext, k) <= QuotaSize

\* the expired order has been revived into a quota that is now full and shared
\* with other orders, while the other request on the order is under way
C3_RevivedIntoFullQuota ==
    \E p \in Procs, q \in Procs, k \in Keys :
        /\ p # q
        /\ proc[p].pc = "done"
        /\ proc[p].audit = <<"pretix.event.order.expirychanged state_change=True">>
        /\ proc[q].pc \notin {"idle", "done"}
        /\ order.status = STATUS_PENDING
        /\ ext[k] > 0
        /\ OwnCount(order.positions, k) > 0
        /\ Used(order, ext, k) = QuotaSize

\* C4: mark-paid of a pending or expired order succeeds only when every position
\* still has quota; when a quota is exhausted it fails with the quota error,
\* which is reported to the operator, and the order and its status are unchanged.
C4_MarkPaidNeedsQuota ==
    [][\A p \in Procs :
          /\ (order.status # STATUS_PAID /\ order'.status = STATUS_PAID)
                => IsStillAvailable(order, ext) = Available
          /\ (proc[p].pc = "mark_order_paid_locked" /\ proc'[p].pc # "mark_order_paid_locked"
                /\ IsStillAvailable(order, ext) # Available)
                => /\ order' = order
                   /\ order'.status = proc[p].loc.status
                   /\ proc'[p].pc = "done"
                   /\ proc'[p].ret = Raised("QuotaExceededException", IsStillAvailable(order, ext))
                   /\ proc'[p].msg.level = "error"
                   /\ proc'[p].msg.ref = IsStillAvailable(order, ext)]_vars

\* mark-paid of the pending order was refused for an exhausted quota
C4_MarkPaidRefused ==
    \E p \in Procs : /\ proc[p].pc = "done"
                     /\ proc[p].ret.text = "QuotaExceededException"
                     /\ proc[p].loc.status = STATUS_PENDING
                     /\ order.status = STATUS_PENDING

\* C5: extending the deadline of an expired order asks for availability while
\* the event lock is held; when available the new deadline is saved and the
\* order is pending; when not, the request is refused with the exhausted quota
\* as the reason, the order stays expired with its old deadline, and no audit
\* entry is written.
C5_RevivalRevalidates ==
    [][\A p \in Procs :
          (proc[p].pc = "extend_locked" /\ proc'[p].pc # "extend_locked")
          => /\ lock = p
             /\ proc'[p].pc = "done"
             /\ IF IsStillAvailable(order, ext) = Available
                THEN /\ order'.status = STATUS_PENDING
                     /\ order'.expires = proc[p].loc.expires
                     /\ proc'[p].audit = <<"pretix.event.order.expirychanged state_change=True">>
                     /\ proc'[p].msg.level = "success"
                ELSE /\ order' = order
                     /\ order'.status = STATUS_EXPIRED
                     /\ proc'[p].audit = <<>>
                     /\ proc'[p].msg.level = "error"
                     /\ proc'[p].msg.ref = IsStillAvailable(order, ext)]_vars

\* a revival with a new deadline was refused for an exhausted quota
C5_RevivalRefused ==
    \E p \in Procs : /\ proc[p].pc = "done"
                     /\ proc[p].msg.text = "unavailable"
                     /\ proc[p].msg.ref \in Keys
                     /\ order.status = STATUS_EXPIRED
                     /\ order.expires # proc[p].loc.expires

\* the edges of the order state machine
Edges ==
    {<<STATUS_PENDING, STATUS_PAID>>, <<STATUS_EXPIRED, STATUS_PAID>>,
     <<STATUS_PENDING, STATUS_CANCELED>>, <<STATUS_PENDING, STATUS_EXPIRED>>,
     <<STATUS_PAID, STATUS_PENDING>>, <<STATUS_PAID, STATUS_REFUNDED>>,
     <<STATUS_EXPIRED, STATUS_PENDING>>}

\* C6: in every sequence of operator requests, every change of the order's
\* status follows one of the edges of the state machine.
C6_StatusFollowsEdges ==
    [][order'.status # order.status => <<order.status, order'.status>> \in Edges]_vars

\* the order has been paid and then refunded by requests of the operator
C6_PaidThenRefunded ==
    \E p \in Procs : /\ proc[p].pc = "done"
                     /\ proc[p].loc.status = STATUS_PAID
                     /\ proc[p].audit = <<"pretix.event.order.refunded">>
                     /\ order.status = STATUS_REFUNDED

\* C7: once the order is canceled or refunded, no later request (transition,
\* deadline extension, change batch) alters its status, positions or total.
C7_TerminalStatuses ==
    [][order.status \in {STATUS_CANCELED, STATUS_REFUNDED}
          => /\ order'.status = order.status
             /\ order'.positions = order.positions
             /\ order'.total = order.total]_vars

\* a change batch for the canceled order has been turned away
C7_ChangeOfCanceledRefused ==
    \E p \in Procs : /\ proc[p].pc = "done"
                     /\ proc[p].loc.status = STATUS_CANCELED
                     /\ ~proc[p].ocm.exists
                     /\ proc[p].msg.text = "This action is only allowed for pending or paid orders."
                     /\ order.status = STATUS_CANCELED

\* C8: when the confirmation mail cannot be delivered after a successful
\* mark-paid, nothing is rolled back: the order is paid, the payment is in the
\* audit log, and the operator gets a warning, not an error.
C8_MailFailureKeepsPaid ==
    \A p \in Procs :
        (proc[p].pc = "done" /\ proc[p].ret = Raised("SendMailException", <<>>))
        => /\ order.status = STATUS_PAID
           /\ wrote[p]
           /\ proc[p].audit = <<"pretix.event.order.paid">>
           /\ proc[p].msg.level = "warning"

\* the expired order was marked paid and the mail could not be delivered
C8_PaidWithoutMail ==
    \E p \in Procs : /\ proc[p].pc = "done"
                     /\ proc[p].ret.text = "SendMailException"
                     /\ proc[p].loc.status = STATUS_EXPIRED
                     /\ order.status = STATUS_PAID

\* the request p has ended because the event lock could not be had in time
LockTimedOut(p) ==
    /\ proc[p].pc = "done"
    /\ proc[p].ret.level = "raise"
    /\ proc[p].ret.text \in {"LockTimeoutException", "LockTimeout"}

\* C9: when the event lock cannot be had in time, revival, mark-paid and commit
\* all end with an error message to the operator and the order unchanged.
C9_LockTimeoutReported ==
    \A p \in Procs :
        LockTimedOut(p) => /\ proc[p].msg.level = "error"
                           /\ ~wrote[p]

\* mark-paid ran into the held lock and the exception left the view unhandled
C9_MarkPaidTimeoutUnhandled ==
    \E p \in Procs : /\ LockTimedOut(p)
                     /\ proc[p].loc.status = STATUS_PENDING
                     /\ proc[p].msg.level = "unhandled"
                     /\ ~wrote[p]

\* C10: commit is called at most once on a manager; every change request
\* builds its own manager, and a commit that raised is not called again.
C10_CommitAtMostOnce ==
    \A p \in Procs :
        /\ proc[p].ocm.commits <= 1
        /\ proc[p].ocm.commits = 1 => proc[p].ocm.exists /\ proc[p].ocm.operations = <<>>

\* a commit has raised and the request ended with that one call
C10_CommitRaisedOnce ==
    \E p \in Procs : /\ proc[p].pc = "done"
                     /\ proc[p].ocm.commits = 1
                     /\ proc[p].ret.level = "raise"
                     /\ proc[p].msg.level = "error"


\* the operations of ops that fail when the queue is applied in its order to
\* the order o, each on what the earlier ones left
FailingPrefixes(o, x, ops) ==
    {i \in 1 .. Len(ops) :
        ~PerformOperations(o.status, o.positions, x, SubSeq(ops, 1, i), 1).ok}

\* the first of them, 0 when the whole queue goes through
FirstFailing(o, x, ops) ==
    IF FailingPrefixes(o, x, ops) = {} THEN 0
    ELSE CHOOSE i \in FailingPrefixes(o, x, ops) : \A j \in FailingPrefixes(o, x, ops) : i <= j

\* C11: when commit fails re-validation, the operator gets one top-level error
\* and it is the error of the first operation, in queue order, that fails: no
\* earlier operation fails, and no error is attached to a single form.
C11_FirstFailingReported ==
    [][\A p \in Procs :
          (proc[p].pc = "ocm_commit" /\ proc'[p].pc = "done" /\ lock = NOBODY)
          => LET ops == proc[p].ocm.operations
                 f == FirstFailing(order, ext, ops)
                 r == PerformOperations(order.status, order.positions, ext, SubSeq(ops, 1, f), 1)
             IN /\ f > 0
                /\ proc'[p].ret = Raised(r.reason, <<f>>)
                /\ proc'[p].msg = [level |-> "error", text |-> r.reason, ref |-> <<f>>]
                /\ proc'[p].form_error = NoFormError]_vars

\* a batch of two operations each of which fails on the order as it is; the
\* error reported is the one of the first
C11_BothWouldFail ==
    \E p \in Procs :
        /\ CommitAborted(p)
        /\ Len(proc[p].ocm.batch) = 2
        /\ \A i \in 1 .. 2 :
              ~PerformOperation(order.status, order.positions, ext, proc[p].ocm.batch[i]).ok
        /\ proc[p].msg.level = "error"
        /\ proc[p].msg.ref = <<1>>


\* C12: a request to regenerate or reissue an invoice that is canceled, or that
\* is not one of the order's, ends at once with an error: no invoice, no
\* cancellation record, no audit entry, the order as it was.
C12_CanceledInvoiceRejected ==
    [][\A p \in Procs :
          (/\ proc[p].pc = "idle"
           /\ proc'[p].view \in {"regenerate", "reissue"}
           /\ \/ proc'[p].inv \notin DOMAIN order.invoices
              \/ order.invoices[proc'[p].inv].canceled)
          => /\ proc'[p].pc = "done"
             /\ proc'[p].msg.level = "error"
             /\ proc'[p].audit = <<>>
             /\ order' = order]_vars

\* a regeneration of a canceled invoice of the order has been turned away
C12_RegenerateOfCanceledRefused ==
    \E p \in Procs :
        /\ proc[p].pc = "done"
        /\ proc[p].view = "regenerate"
        /\ proc[p].inv \in DOMAIN order.invoices
        /\ order.invoices[proc[p].inv].canceled
        /\ proc[p].msg = Message("error", "The invoice has already been canceled.")
        /\ ~wrote[p]

\* the invoices with a cancellation record
Cancelled(o) == {o.cancellations[j] : j \in DOMAIN o.cancellations}

\* every canceled invoice has exactly one cancellation record, and no invoice
\* but the latest is un-canceled
InvoiceProtocol(o) ==
    /\ Len(o.cancellations) = Cardinality(Cancelled(o))
    /\ Cancelled(o) = {i \in DOMAIN o.invoices : o.invoices[i].canceled}
    /\ \A i \in DOMAIN o.invoices : ~o.invoices[i].canceled => i = Len(o.invoices)

\* C13: invoices change by cancel-and-reissue only: when a new invoice is
\* issued every older one already has its cancellation record, every step
\* leaves at most the latest invoice un-canceled, and so two regenerations in
\* sequence leave two cancellation records and two new invoices.
C13_CancelBeforeReissue ==
    [][/\ InvoiceProtocol(order')
       /\ Len(order'.invoices) > Len(order.invoices)
             => /\ Len(order'.invoices) = Len(order.invoices) + 1
                /\ Cancelled(order) = DOMAIN order.invoices
                /\ order'.cancellations = order.cancellations]_vars

\* the invoice of the order has been regenerated twice in sequence
C13_RegeneratedTwice ==
    \E p \in Procs :
        /\ proc[p].pc = "done"
        /\ proc[p].view = "regenerate"
        /\ Len(order.invoices) = 3
        /\ order.invoices[2].via = "regenerated"
        /\ order.invoices[3] = Invoice("regenerated")
        /\ order.invoices[1].canceled /\ order.invoices[2].canceled
        /\ order.cancellations = <<1, 2>>


\* the add-ons of a queue that name, as their parent, a position added earlier
\* in the same queue
InBatchAddons(ops) ==
    {i \in DOMAIN ops : /\ ops[i].op = "add"
                         /\ ops[i].addon_to < 0
                         /\ -ops[i].addon_to < i
                         /\ ops[-ops[i].addon_to].op = "add"}

CommitSucceeded(p) ==
    /\ proc[p].ocm.commits = 1
    /\ \/ proc[p].pc = "commit_notify"
       \/ proc[p].pc = "done" /\ proc[p].ret = Returned

\* C15: a successful commit of a batch of n operations has written n audit
\* entries, one per operation and in their order, and after them the one
\* aggregate "order changed" entry, n + 1 in all; once the request is done the
\* customer has been notified exactly once for the whole batch.
C15_AuditPerChangePlusAggregate ==
    \A p \in Procs :
        CommitSucceeded(p)
        => LET n == Len(proc[p].ocm.batch)
           IN /\ Len(proc[p].audit) = n + 1
              /\ \A i \in 1 .. n : proc[p].audit[i] = proc[p].ocm.batch[i].op
              /\ proc[p].audit[n + 1] = "pretix.event.order.changed"
              /\ \A i \in 1 .. n : proc[p].audit[i] # "pretix.event.order.changed"
              /\ proc[p].mails = (IF proc[p].pc = "done" THEN 1 ELSE 0)

\* a batch of a price change alone has been committed and answered: one
\* price entry, the aggregate entry, one notification
C15_OnePriceChangeCommitted ==
    \E p \in Procs :
        /\ CommitSucceeded(p)
        /\ proc[p].pc = "done"
        /\ Len(proc[p].ocm.batch) = 1
        /\ proc[p].audit = <<"price", "pretix.event.order.changed">>
        /\ proc[p].mails = 1


\* the status changes that take inventory or give it back
InventoryEdges ==
    {<<STATUS_PENDING, STATUS_EXPIRED>>, <<STATUS_PENDING, STATUS_CANCELED>>,
     <<STATUS_EXPIRED, STATUS_PENDING>>, <<STATUS_EXPIRED, STATUS_PAID>>}

\* C16: every status change that takes or frees inventory (pending to expired,
\* pending to canceled, expired to pending, expired to paid) is persisted by a
\* request that holds the event lock at that step; the availability check it
\* acts upon is made in the same step, inside the same lock.
C16_InventoryEdgesUnderLock ==
    [][\A p \in Procs :
          (proc'[p] # proc[p] /\ <<order.status, order'.status>> \in InventoryEdges)
          => lock = p]_vars

\* the operator has marked the pending order as expired: the status is saved
\* by the view itself, which takes no lock
C16_ExpiredWithoutLock ==
    \E p \in Procs :
        /\ proc[p].pc = "done"
        /\ wrote[p]
        /\ order.status = STATUS_EXPIRED
        /\ proc[p].audit = <<"pretix.event.order.expired">>
        /\ proc[p].msg = Message("success", "The order has been marked as expired.")


\* where a request is about to make an outbound call: the mails of
\* mark_order_paid, cancel_order and commit, the payment provider's refund
OutboundPcs == {"mark_order_paid_notify", "cancel_order_notify", "commit_notify", "refund"}

\* C17: no request holds the event lock while one of its outbound calls (a
\* notification, the payment provider) is made: the lock it took has been
\* released before the call starts, and the call does not take it.
C17_NoLockAcrossOutboundCalls ==
    [][\A p \in Procs :
          (\/ proc'[p].mails > proc[p].mails
           \/ proc[p].pc \in OutboundPcs /\ proc'[p] # proc[p])
          => lock # p /\ lock' # p]_vars

\* the order has been marked paid under the lock and the confirmation mail is
\* still to be sent, while the lock is already held elsewhere in the event
C17_MailPendingLockElsewhere ==
    \E p \in Procs :
        /\ proc[p].pc = "mark_order_paid_notify"
        /\ wrote[p]
        /\ order.status = STATUS_PAID
        /\ lock = ELSEWHERE


\* the positions as the first i operations of the queue leave them, each
\* re-validated on what the ones before it did
AfterPrefix(o, x, ops, i) == PerformOperations(o.status, o.positions, x, SubSeq(ops, 1, i), 1)

FailingForms(posns, add_form, forms) ==
    {i \in {0} : ~add_form.valid \/ (add_form.do /\ add_form.price < 0)}
    \cup {i \in Live(posns) :
             ~forms[i].valid \/ (forms[i].operation = "price" /\ forms[i].price < 0)}

\* C19: processing the forms of a change request into the manager's queue
\* changes neither the stored order nor the lock, writes no audit entry and
\* sends nothing; and when a form fails, the error is attached to the first
\* form that fails, the request ends there with the general error message,
\* commit has not been called and the lock has not been taken.
C19_EarlyFailureHasNoEffect ==
    [][\A p \in Procs :
          (proc[p].pc = "idle" /\ OrderChange_dispatch(order.status))
          => \A add_form \in PricedAddForms(order.positions) :
                \A forms \in [1 .. Len(order.positions) -> PricedPositionForms] :
                   OrderChange_post_queue(p, add_form, forms)
                   => LET bad == FailingForms(order.positions, add_form, forms)
                      IN /\ order' = order
                         /\ lock' = lock
                         /\ ~wrote'[p]
                         /\ proc'[p].audit = <<>>
                         /\ proc'[p].mails = 0
                         /\ proc'[p].ocm.commits = 0
                         /\ bad = {} => proc'[p].pc = "ocm_commit"
                         /\ bad # {}
                            => /\ proc'[p].pc = "done"
                               /\ proc'[p].form_error.at \in bad
                               /\ \A i \in bad : proc'[p].form_error.at <= i
                               /\ proc'[p].msg =
                                     Message("error", "An error occured. Please see the details below.")]_vars

\* the price asked for a position was refused by the early validation after
\* an operation had been queued: the request has ended with the error on that
\* form, without a commit and without a trace, the lock being held elsewhere
C19_SecondOperationRefusedEarly ==
    \E p \in Procs :
        /\ proc[p].pc = "done"
        /\ proc[p].form_error.kind = "OrderError"
        /\ proc[p].form_error.at >= 1
        /\ proc[p].ocm.queued >= 1
        /\ proc[p].ocm.commits = 0
        /\ ~wrote[p]
        /\ proc[p].audit = <<>>
        /\ proc[p].mails = 0
        /\ lock = ELSEWHERE


\* the request p is at the entry of a locked section
AcquiringLock(p) == proc[p].pc \in {"extend_lock", "mark_order_paid", "cancel_order"}

\* the request p has ended on the lock's bounded wait
LockBusyOutcome(p) ==
    /\ proc[p].pc = "done"
    /\ \/ proc[p].ret = Raised("LockTimeoutException", <<>>)
       \/ proc[p].msg.text = "LockTimeoutException"

\* C20: a request that has come to the entry of a locked section gets the
\* lock or ends with the lock-busy outcome, and a request that holds the lock
\* releases it, whether what it wanted was done or refused.
C20_LockNeverHangs ==
    \A p \in Procs :
        /\ AcquiringLock(p) ~> (lock = p \/ LockBusyOutcome(p))
        /\ (lock = p) ~> (lock # p)

\* a revival was refused inside the lock for want of inventory and the lock
\* is free again, while the other request has run into the bounded wait
C20_RefusedAndReleased ==
    \E p \in Procs, q \in Procs :
        /\ p # q
        /\ proc[p].pc = "done"
        /\ proc[p].msg.text = "unavailable"
        /\ lock # p
        /\ LockBusyOutcome(q)


\* the audit action a status change is logged under
TransitionTag(from, to) ==
    CASE to = STATUS_PAID -> "pretix.event.order.paid"
      [] to = STATUS_CANCELED -> "pretix.event.order.canceled"
      [] to = STATUS_EXPIRED -> "pretix.event.order.expired"
      [] to = STATUS_REFUNDED -> "pretix.event.order.refunded"
      [] to = STATUS_PENDING /\ from = STATUS_PAID -> "pretix.event.order.unpaid"
      [] OTHER -> "pretix.event.order.expirychanged state_change=True"

TransitionTags == {TransitionTag(e[1], e[2]) : e \in Edges}

\* where a request stands between the save of a status and its audit entry
AuditPending(to) ==
    CASE to = STATUS_PAID -> "mark_order_paid_notify"
      [] to = STATUS_CANCELED -> "cancel_order_notify"
      [] OTHER -> "none"

\* C21: a request that carries out a status change writes exactly one audit
\* entry, tagged with that change, in the step that saves the status or in
\* the one step that follows it; it writes no other entry, no entry with
\* such a tag is written without the change, and it sends at most one mail.
C21_OneAuditEntryPerTransition ==
    [][\A p \in Procs :
          proc'[p] # proc[p]
          => /\ order'.status # order.status
                => \/ /\ proc'[p].pc = "done"
                      /\ proc'[p].audit = <<TransitionTag(order.status, order'.status)>>
                   \/ /\ proc'[p].pc = AuditPending(order'.status)
                      /\ proc'[p].audit = <<>>
             /\ proc[p].pc \in {"mark_order_paid_notify", "cancel_order_notify"}
                => /\ proc[p].pc = AuditPending(order.status)
                   /\ proc'[p].pc = "done"
                   /\ proc'[p].audit = <<TransitionTag(STATUS_PENDING, order.status)>>
                   /\ order' = order
             /\ (\E t \in TransitionTags :
                    /\ Len(proc'[p].audit) > 0
                    /\ proc'[p].audit[Len(proc'[p].audit)] = t
                    /\ proc'[p].audit # proc[p].audit)
                => \/ order'.status # order.status
                   \/ proc[p].pc \in {"mark_order_paid_notify", "cancel_order_notify"}
             /\ (order'.status # order.status \/ proc[p].pc \in OutboundPcs \ {"commit_notify"})
                => proc'[p].mails <= 1]_vars

\* the paid order has been marked as not paid: one entry, 'unpaid', no mail
C21_UnpaidLogged ==
    \E p \in Procs :
        /\ proc[p].pc = "done"
        /\ wrote[p]
        /\ order.status = STATUS_PENDING
        /\ order.payment_manual
        /\ proc[p].audit = <<"pretix.event.order.unpaid">>
        /\ proc[p].mails = 0


\* C22: a request to mark the paid order as not paid is never held up and
\* never refused, whatever the quotas and whoever holds the lock: its step
\* can always be taken, leaves the lock as it is, sets the status to pending
\* and the manual-payment flag, and leaves positions, total, fee and expiry
\* as they were.
C22_UnpaidAlwaysSucceeds ==
    /\ [](\A p \in Procs : proc[p].pc = "unpaid" => ENABLED Transition_unpaid(p))
    /\ [][\A p \in Procs :
             /\ (proc[p].pc = "idle" /\ proc'[p].pc = "unpaid") => order.status = STATUS_PAID
             /\ (proc[p].pc = "unpaid" /\ proc'[p] # proc[p])
                => /\ order' = [order EXCEPT !.status = STATUS_PENDING,
                                             !.payment_manual = TRUE]
                   /\ lock' = lock
                   /\ ext' = ext
                   /\ proc'[p].pc = "done"
                   /\ proc'[p].msg = Message("success", "The order has been marked as not paid.")]_vars

\* the order has gone back from paid to pending while its quota was
\* exhausted and the lock was held elsewhere in the event
C22_UnpaidUnderFullQuotaAndLock ==
    \E p \in Procs :
        /\ proc[p].pc = "done"
        /\ proc[p].audit = <<"pretix.event.order.unpaid">>
        /\ wrote[p]
        /\ order.status = STATUS_PENDING
        /\ lock = ELSEWHERE
        /\ IsStillAvailable(order, ext) # Available


\* C23: a valid deadline change of a pending order is never held up and never
\* refused, whatever the quotas and whoever holds the lock: its step can
\* always be taken, leaves the lock as it is, sets the expiry to the one
\* asked for and nothing else, the status staying pending, and writes one
\* audit entry, 'expirychanged' with state_change False.
C23_DeadlineChangeOfPending ==
    /\ [](\A p \in Procs : proc[p].pc = "extend_pending" => ENABLED OrderExtend_post_pending(p))
    /\ [][\A p \in Procs :
             /\ (proc[p].pc = "idle" /\ proc'[p].pc = "extend_pending")
                => order.status = STATUS_PENDING
             /\ (proc[p].pc = "extend_pending" /\ proc'[p] # proc[p])
                => /\ order' = [order EXCEPT !.expires = proc[p].loc.expires]
                   /\ order'.status = STATUS_PENDING
                   /\ lock' = lock
                   /\ ext' = ext
                   /\ proc'[p].pc = "done"
                   /\ proc'[p].audit = <<"pretix.event.order.expirychanged state_change=False">>
                   /\ proc'[p].mails = 0
                   /\ proc'[p].msg = Message("success", "The payment term has been changed.")]_vars

\* the deadline of the pending order has been moved while its quota was
\* exhausted and the lock was held elsewhere in the event
C23_DeadlineMovedUnderFullQuotaAndLock ==
    \E p \in Procs :
        /\ proc[p].pc = "done"
        /\ proc[p].audit = <<"pretix.event.order.expirychanged state_change=False">>
        /\ wrote[p]
        /\ order.status = STATUS_PENDING
        /\ order.expires = 2
        /\ lock = ELSEWHERE
        /\ IsStillAvailable(order, ext) # Available


C25_NoLostStatusUpdate ==
    [][\A p \in Procs :
          (proc'[p] # proc[p] /\ order'.status # order.status)
          => /\ <<order.status, order'.status>> \in Edges
             /\ order.status = STATUS_PAID
                => /\ order'.status \notin {STATUS_EXPIRED, STATUS_CANCELED}
                   /\ order'.status = STATUS_PENDING => proc[p].pc = "unpaid"]_vars

\* one request has marked the order paid and has its mail still to send,
\* and the other, which had read the order as pending, has since saved it as
\* expired
C25_PaidOverwrittenByExpired ==
    \E p \in Procs, q \in Procs :
        /\ p # q
        /\ proc[q].pc = "mark_order_paid_notify"
        /\ wrote[q]
        /\ proc[p].pc = "done"
        /\ proc[p].audit = <<"pretix.event.order.expired">>
        /\ proc[p].loc.status = STATUS_EXPIRED
        /\ order.status = STATUS_EXPIRED


\* the invoices of the order that are not canceled
LiveInvoices(o) == {i \in DOMAIN o.invoices : ~o.invoices[i].canceled}

\* C26: whatever create, regenerate and reissue requests are served, one
\* after the other or side by side, the order never has more than one
\* invoice that is not canceled.
C26_AtMostOneLiveInvoice == Cardinality(LiveInvoices(order)) <= 1

\* two create requests have each found the order without an invoice and have
\* each generated one: the order has two invoices, neither canceled
C26_TwoCreatesTwoInvoices ==
    /\ \A p \in Procs :
          /\ proc[p].pc = "done"
          /\ proc[p].audit = <<"pretix.event.order.invoice.generated">>
    /\ Len(order.invoices) = 2
    /\ LiveInvoices(order) = {1, 2}


\* where a request can stand after its first step when it has been let
\* through, by the status of the order it found
PermittedStarts(st) ==
    CASE st = STATUS_PENDING ->
            {"mark_order_paid", "cancel_order", "expired", "extend_pending", "commit_notify"}
      [] st = STATUS_PAID -> {"unpaid", "refund", "commit_notify"}
      [] st = STATUS_EXPIRED -> {"mark_order_paid", "extend_lock"}
      [] OTHER -> {}

\* C27: a request that the status of the order does not permit ends in its
\* first step and is a no-op: the first step of a request either starts
\* something the status permits or ends the request; a manager exists only
\* for pending and paid orders; and a request that ended there without a
\* manager has left the order (status, expiry, positions, total) and the
\* lock as they were and has written no audit entry.
C27_NotPermittedIsNoOp ==
    [][\A p \in Procs :
          (proc[p].pc = "idle" /\ proc'[p].pc # "idle")
          => /\ proc'[p].pc \in PermittedStarts(order.status) \cup {"done"}
             /\ proc'[p].ocm.exists => order.status \in {STATUS_PENDING, STATUS_PAID}
             /\ lock' = lock
             /\ (proc'[p].pc = "done" /\ ~proc'[p].ocm.exists)
                => /\ order' = order
                   /\ ~wrote'[p]
                   /\ proc'[p].audit = <<>>
                   /\ proc'[p].mails = 0]_vars

\* a deadline change was asked for a refunded order and turned away by
\* dispatch(): nothing written, no manager, no audit entry
C27_ExtendOfRefundedTurnedAway ==
    \E p \in Procs :
        /\ proc[p].pc = "done"
        /\ proc[p].msg = Message("error", "This action is only allowed for pending orders.")
        /\ order.status = STATUS_REFUNDED
        /\ ~wrote[p]
        /\ ~proc[p].ocm.exists
        /\ proc[p].audit = <<>>


\* the first form of a request that does not get through, or the number
\* after the last position when all do
FirstFailingForm(posns, add_form, forms) ==
    LET bad == FailingForms(posns, add_form, forms)
    IN IF bad = {} THEN Len(posns) + 1
       ELSE CHOOSE i \in bad : \A j \in bad : i <= j

\* the operations of the positions in S, in position order
RECURSIVE InPositionOrder(_, _)
InPositionOrder(S, forms) ==
    IF S = {} THEN <<>>
    ELSE LET m == CHOOSE i \in S : \A j \in S : i <= j
         IN <<FormOperation(m, forms[m])>> \o InPositionOrder(S \ {m}, forms)

\* what a request has queued when it stops: the addition if one is asked
\* for, then the operation of every position before the first failing form
QueuedBefore(posns, add_form, forms) ==
    LET f == FirstFailingForm(posns, add_form, forms)
        iv == SplitItemVar(add_form.itemvar)
    IN (IF add_form.do /\ 0 < f
        THEN <<Operation("add", None, iv[1], iv[2], add_form.subevent, add_form.price,
                         add_form.addon_to)>>
        ELSE <<>>)
       \o InPositionOrder({i \in Live(posns) : i < f /\ forms[i].operation # ""}, forms)

\* C28: a change request queues the addition first, if one is asked for, and
\* then one operation for each position that has one, in position order, and
\* stops at the first form that fails: what the manager holds is exactly
\* what came before that form, nothing after it, and the one error recorded
\* is on that form.
C28_QueueOrderAndFirstFailure ==
    [][\A p \in Procs :
          (proc[p].pc = "idle" /\ OrderChange_dispatch(order.status))
          => \A add_form \in PricedAddForms(order.positions) :
                \A forms \in [1 .. Len(order.positions) -> PricedPositionForms] :
                   OrderChange_post_queue(p, add_form, forms)
                   => LET f == FirstFailingForm(order.positions, add_form, forms)
                          q == QueuedBefore(order.positions, add_form, forms)
                      IN IF f > Len(order.positions)
                         THEN /\ proc'[p].ocm.operations = q
                              /\ proc'[p].form_error = NoFormError
                         ELSE /\ proc'[p].ocm.batch = q
                              /\ proc'[p].ocm.queued = Len(q)
                              /\ proc'[p].form_error.at = f
                              /\ proc'[p].pc = "done"]_vars

\* a request asked for an addition and for a negative price on the first
\* position: the addition was queued, the error is on the position's form
C28_AdditionQueuedThenStopped ==
    \E p \in Procs :
        /\ proc[p].pc = "done"
        /\ proc[p].form_error = [at |-> 1, kind |-> "OrderError"]
        /\ Len(proc[p].ocm.batch) = 1
        /\ proc[p].ocm.batch[1].op = "add"
        /\ Len(order.positions) = 1

=============================================================================
